---------------------------- MODULE Spec2Model ----------------------------
(***************************************************************************)
(* Model of the todoist command-line client (src/src/main.rs).             *)
(*                                                                         *)
(* One behaviour is a sequence of non-overlapping invocations of the       *)
(* binary that share one data directory and one remote account.  Inside an *)
(* invocation the program counter walks through main: get_api_key,         *)
(* get_stored_user_data, the optional add_item, the farewell.  The file    *)
(* system and the remote service are the environment: the remote profile   *)
(* may change and somebody may delete the cache file.                      *)
(***************************************************************************)
EXTENDS Naturals, Sequences, FiniteSets

VARIABLES
    authFile,     \* <dir>/client_auth.toml
    dataDir,      \* TRUE iff the directory <dir>/data exists
    userFile,     \* <dir>/data/user.json: {} when absent, else {document}
    remoteInbox,  \* inbox project id of the profile held by the remote service
    pc,           \* position of the running invocation inside main
    add_todo,     \* args.add_todo: {} (None) or {text}
    api_key,      \* local api_key of main: {} before get_api_key returned
    stored_user,  \* local stored_user of main: {} before it was obtained
    stdout,       \* lines printed by the running invocation
    requests,     \* HTTP requests sent by the running invocation
    responses,    \* the remote's answers to them, in the same order
    exit_code,    \* {} while running, else {exit status of the process}
    uuidsDrawn,   \* how many identifiers Uuid::new_v4 has produced so far
    issuedIds,    \* <<temp_id, uuid>> of every add_item call of every invocation
    invocations,  \* number of invocations started
    removals,     \* number of times somebody deleted the cache file
    fileWrites    \* number of invocations whose File::create made/truncated user.json

vars == <<authFile, dataDir, userFile, remoteInbox, pc, add_todo, api_key,
          stored_user, stdout, requests, responses, exit_code, uuidsDrawn,
          issuedIds, invocations, removals, fileWrites>>

fsVars == <<authFile, dataDir, userFile>>

----------------------------------------------------------------------------
(* Bounds of the model *)

MaxInvocations == 3
MaxRemovals == 1

(* Small sets the inputs are drawn from *)

Ids == {"123", "456"}
Texts == {"Buy milk", "Walk dog"}
Keys == {"k1"}

----------------------------------------------------------------------------
(* Process exit statuses: main returned Ok, main returned Err, panic *)

ExitOk == 0
ExitErr == 1
ExitPanic == 101

----------------------------------------------------------------------------
(* Result<T, E> and Option<T>: val holds zero or one value *)

Ok(v) == [ok |-> TRUE, val |-> {v}]
Err == [ok |-> FALSE, val |-> {}]

TheOne(s) == CHOOSE x \in s : TRUE

----------------------------------------------------------------------------
(* client_auth.toml.  A file is missing, unreadable, or readable text; the  *)
(* text is TOML or not; a TOML document is a table of <<key, type, value>>. *)

TomlFile(tbl) == [exists |-> TRUE, readable |-> TRUE, toml |-> TRUE, table |-> tbl]

AuthMissing == [exists |-> FALSE, readable |-> FALSE, toml |-> FALSE, table |-> {}]
AuthUnreadable == [exists |-> TRUE, readable |-> FALSE, toml |-> FALSE, table |-> {}]
AuthNotToml == [exists |-> TRUE, readable |-> TRUE, toml |-> FALSE, table |-> {}]
AuthNoKey == TomlFile({<<"name", "string", "me">>})
AuthIntKey == TomlFile({<<"api_key", "integer", "42">>})

AuthFiles ==
    {AuthMissing, AuthUnreadable, AuthNotToml, AuthNoKey, AuthIntKey}
    \cup {TomlFile({<<"api_key", "string", k>>}) : k \in Keys}
    \cup {TomlFile({<<"api_key", "string", k>>, <<"name", "string", "me">>}) : k \in Keys}

(* fs::read_to_string *)
read_to_string(f) == IF f.exists /\ f.readable THEN Ok(f) ELSE Err

(* toml::from_str::<Config>: the table must hold a string api_key *)
toml_from_str(f) ==
    IF f.toml /\ \E e \in f.table : e[1] = "api_key" /\ e[2] = "string"
    THEN Ok([api_key |-> (CHOOSE e \in f.table : e[1] = "api_key")[3]])
    ELSE Err

(* Variant: a missing or unusable credential becomes the empty key *)
get_api_key_or_default(f) ==
    LET file == read_to_string(f)
    IN  IF ~file.ok THEN Ok("")
        ELSE LET config == toml_from_str(TheOne(file.val))
             IN  IF ~config.ok THEN Ok("") ELSE Ok(TheOne(config.val).api_key)

get_api_key(f) ==
    LET file == read_to_string(f)
    IN  IF ~file.ok THEN Err
        ELSE LET config == toml_from_str(TheOne(file.val))
             IN  IF ~config.ok THEN Err ELSE Ok(TheOne(config.val).api_key)


----------------------------------------------------------------------------
(* JSON.  A document is complete (well-formed) or not, and holds a set of   *)
(* <<field name, string value>> pairs.  An empty or partially written file  *)
(* is a document that is not complete.                                      *)

JsonDoc(flds) == [complete |-> TRUE, fields |-> flds]
PartialDoc(flds) == [complete |-> FALSE, fields |-> flds]

(* todoist::sync::User, reduced to the attribute main consumes *)
User(id) == [inbox_project_id |-> id]

(* serde_json::to_writer_pretty(file, &user): what a completed write leaves *)
to_writer_pretty(user) == JsonDoc({<<"inbox_project_id", user.inbox_project_id>>})

(* What a failed write can leave behind File::create: an empty file or a    *)
(* prefix of the document.                                                  *)
FailedWrites(user) == {PartialDoc({}), PartialDoc(to_writer_pretty(user).fields)}

(* serde_json::from_str::<User>: unknown fields are skipped, the known one  *)
(* is required.                                                             *)
from_str_User(doc) ==
    IF doc.complete /\ \E f \in doc.fields : f[1] = "inbox_project_id"
    THEN Ok(User((CHOOSE f \in doc.fields : f[1] = "inbox_project_id")[2]))
    ELSE Err

(* Cache files an earlier run, an editor or a crash may have left *)
CacheFiles ==
    {to_writer_pretty(User(i)) : i \in Ids}
    \cup {JsonDoc({<<"inbox_project_id", i>>, <<"full_name", "Ann">>}) : i \in Ids}
    \cup {JsonDoc({<<"full_name", "Ann">>}), PartialDoc({})}

----------------------------------------------------------------------------
(* The remote service.  A response either never arrives (transport failure) *)
(* or carries a status and a body; a JSON body may hold a user document.    *)
(* accepted tells whether the service stored the item of an add-item call.  *)

Response(st, js, usr, acc) ==
    [transport |-> TRUE, status |-> st, json |-> js, user |-> usr, accepted |-> acc]

TransportFailure ==
    [transport |-> FALSE, status |-> 0, json |-> FALSE, user |-> {}, accepted |-> FALSE]

RemoteUserDoc(inbox) == JsonDoc({<<"inbox_project_id", inbox>>, <<"full_name", "Ann">>})

GetUserResponses(inbox) ==
    { TransportFailure,
      Response(200, TRUE, {RemoteUserDoc(inbox)}, FALSE),
      Response(200, TRUE, {}, FALSE),
      Response(200, TRUE, {JsonDoc({<<"full_name", "Ann">>})}, FALSE),
      Response(200, FALSE, {}, FALSE),
      Response(403, TRUE, {}, FALSE) }

AddItemResponses ==
    { TransportFailure,
      Response(200, TRUE, {}, TRUE),
      Response(200, TRUE, {}, FALSE),
      Response(200, FALSE, {}, FALSE),
      Response(403, TRUE, {}, FALSE),
      Response(500, FALSE, {}, FALSE) }

(* resp.json::<SyncResponse>(): the status is not looked at *)
json_SyncResponse(resp) ==
    IF resp.json /\ \A d \in resp.user : from_str_User(d).ok
    THEN Ok([user |-> {TheOne(from_str_User(d).val) : d \in resp.user}])
    ELSE Err

----------------------------------------------------------------------------
(* Requests *)

Bearer(key) == <<"Bearer", key>>

GetUserSyncRequest ==
    [sync_token |-> "*", resource_types |-> <<"user">>, commands |-> <<>>]

(* Uuid::new_v4(): the n-th identifier drawn; the generator never repeats *)
new_v4(n) == n + 1

(* Variant: one identifier drawn and used for both temp_id and uuid *)
AddItemSyncRequestOneId(project_id, item, n) ==
    [sync_token |-> "*",
     resource_types |-> <<>>,
     commands |-> << [type |-> "item_add",
                      args |-> [project_id |-> project_id, content |-> item],
                      temp_id |-> new_v4(n),
                      uuid |-> new_v4(n)] >>]

(* Variant: the two String arguments end up in each other's field *)
AddItemSyncRequestSwapped(project_id, item, n) ==
    [sync_token |-> "*",
     resource_types |-> <<>>,
     commands |-> << [type |-> "item_add",
                      args |-> [project_id |-> item, content |-> project_id],
                      temp_id |-> new_v4(n),
                      uuid |-> new_v4(n + 1)] >>]

AddItemSyncRequest(project_id, item, n) ==
    [sync_token |-> "*",
     resource_types |-> <<>>,
     commands |-> << [type |-> "item_add",
                      args |-> [project_id |-> project_id, content |-> item],
                      temp_id |-> new_v4(n),
                      uuid |-> new_v4(n + 1)] >>]

Post(key, body) == [authorization |-> Bearer(key), body |-> body]

(* Outcome of a call: "ok" with a value, "err" (Err returned), "panic" *)
Outcome(k, v) == [kind |-> k, val |-> v]

(* Variant: a Sync Response without user yields a default User *)
get_user_or_default(resp) ==
    IF ~resp.transport THEN Outcome("panic", {})
    ELSE LET parsed == json_SyncResponse(resp)
         IN  IF ~parsed.ok THEN Outcome("err", {})
             ELSE IF TheOne(parsed.val).user = {} THEN Outcome("ok", {User("")})
             ELSE Outcome("ok", TheOne(parsed.val).user)

(* get_user, given the remote's answer *)
get_user(resp) ==
    IF ~resp.transport THEN Outcome("panic", {})
    ELSE LET parsed == json_SyncResponse(resp)
         IN  IF ~parsed.ok THEN Outcome("err", {})
             ELSE IF TheOne(parsed.val).user = {} THEN Outcome("panic", {})
             ELSE Outcome("ok", TheOne(parsed.val).user)

(* add_item, given the remote's answer *)
add_item(resp) ==
    IF ~resp.transport THEN Outcome("panic", {})
    ELSE LET parsed == json_SyncResponse(resp)
         IN  IF ~parsed.ok THEN Outcome("err", {}) ELSE Outcome("ok", parsed.val)

(* Lines of stdout *)
FetchingLine == <<"Fetching user data... ">>
DoneLine == <<"done.">>
StoringLine == <<"Storing user data in '", "data/user.json", "'.">>
ConfirmationLine(text) == <<"Todo '", text, "' added to inbox.">>
FarewellLine == <<"Bye!">>

----------------------------------------------------------------------------
(* State of the world before the first invocation: any credentials file,   *)
(* any cache (none, a good one, a damaged one), any remote profile.        *)

Init ==
    /\ authFile \in AuthFiles
    /\ \E d \in {{}} \cup {{c} : c \in CacheFiles} :
          /\ userFile = d
          /\ dataDir \in (IF d = {} THEN BOOLEAN ELSE {TRUE})
    /\ remoteInbox \in Ids
    /\ pc = "idle"
    /\ add_todo = {}
    /\ api_key = {}
    /\ stored_user = {}
    /\ stdout = <<>>
    /\ requests = <<>>
    /\ responses = <<>>
    /\ exit_code = {}
    /\ uuidsDrawn = 0
    /\ issuedIds = <<>>
    /\ invocations = 0
    /\ removals = 0
    /\ fileWrites = 0

(* The process ends with the given status *)
Exit(code) ==
    /\ pc' = "exited"
    /\ exit_code' = {code}

(* main, lines 42-52: a new process starts and parses its arguments *)
Invoke ==
    /\ pc \in {"idle", "exited"}
    /\ invocations < MaxInvocations
    /\ invocations' = invocations + 1
    /\ \E a \in {{}} \cup {{t} : t \in Texts} : add_todo' = a
    /\ pc' = "get_api_key"
    /\ api_key' = {}
    /\ stored_user' = {}
    /\ stdout' = <<>>
    /\ requests' = <<>>
    /\ responses' = <<>>
    /\ exit_code' = {}
    /\ UNCHANGED <<fsVars, remoteInbox, uuidsDrawn, issuedIds, removals, fileWrites>>

(* main, line 54: let api_key = get_api_key(&data_dir)?; *)
GetApiKey ==
    /\ pc = "get_api_key"
    /\ LET r == get_api_key(authFile)
       IN  IF r.ok
           THEN /\ api_key' = r.val
                /\ pc' = "get_stored_user_data"
                /\ UNCHANGED exit_code
           ELSE /\ Exit(ExitErr)
                /\ UNCHANGED api_key
    /\ UNCHANGED <<fsVars, remoteInbox, add_todo, stored_user, stdout, requests,
                   responses, uuidsDrawn, issuedIds, invocations, removals, fileWrites>>

(* The calls of the store branch that can fail, and "ok" when none does *)
IoOutcomes == {"ok", "create_dir_all", "File::create", "to_writer_pretty"}

(* Variant: the cache file is never looked for *)
existsNever(file) == FALSE

(* Path::exists on <dir>/data/user.json *)
exists(file) == file # {}

(* Variant: the file is created but the user is never written to it *)
StoreWithoutWriting(user, io) ==
    /\ stdout' = stdout \o <<FetchingLine, DoneLine, StoringLine>>
    /\ io = "ok"
    /\ dataDir' = TRUE
    /\ userFile' = {PartialDoc({})}
    /\ fileWrites' = fileWrites + 1
    /\ stored_user' = {user}
    /\ pc' = "add_todo"
    /\ UNCHANGED exit_code

(* get_stored_user_data, lines 98-103: store the fetched user, return it *)
Store(user, io) ==
    /\ stdout' = stdout \o <<FetchingLine, DoneLine, StoringLine>>
    /\ CASE io = "create_dir_all" ->
              /\ ~dataDir
              /\ Exit(ExitErr)
              /\ UNCHANGED <<dataDir, userFile, stored_user, fileWrites>>
         [] io = "File::create" ->
              /\ dataDir' = TRUE
              /\ Exit(ExitErr)
              /\ UNCHANGED <<userFile, stored_user, fileWrites>>
         [] io = "to_writer_pretty" ->
              /\ dataDir' = TRUE
              /\ \E partial \in FailedWrites(user) : userFile' = {partial}
              /\ fileWrites' = fileWrites + 1
              /\ Exit(ExitErr)
              /\ UNCHANGED stored_user
         [] OTHER ->
              /\ dataDir' = TRUE
              /\ userFile' = {to_writer_pretty(user)}
              /\ fileWrites' = fileWrites + 1
              /\ stored_user' = {user}
              /\ pc' = "add_todo"
              /\ UNCHANGED exit_code

(* get_stored_user_data, lines 95-103: no cache file, fetch and store *)
FetchAndStore ==
    \E resp \in GetUserResponses(remoteInbox), io \in IoOutcomes :
        LET fetched == get_user(resp)
        IN  /\ requests' = Append(requests, Post(TheOne(api_key), GetUserSyncRequest))
            /\ responses' = Append(responses, resp)
            /\ IF fetched.kind = "ok"
               THEN Store(TheOne(fetched.val), io)
               ELSE /\ io = "ok"
                    /\ stdout' = Append(stdout, FetchingLine)
                    /\ Exit(IF fetched.kind = "panic" THEN ExitPanic ELSE ExitErr)
                    /\ UNCHANGED <<dataDir, userFile, stored_user, fileWrites>>

(* Variant: a cache file that does not parse is replaced by a new fetch *)
ReadCacheOrRefetch ==
    LET user == from_str_User(TheOne(userFile))
    IN  IF user.ok
        THEN /\ stored_user' = user.val
             /\ pc' = "add_todo"
             /\ UNCHANGED <<exit_code, dataDir, userFile, stdout, requests, responses,
                            fileWrites>>
        ELSE FetchAndStore

(* Variant: the cache file is written back after it was read *)
ReadCacheAndRewrite ==
    LET user == from_str_User(TheOne(userFile))
    IN  /\ IF user.ok
           THEN /\ stored_user' = user.val
                /\ userFile' = {to_writer_pretty(TheOne(user.val))}
                /\ fileWrites' = fileWrites + 1
                /\ pc' = "add_todo"
                /\ UNCHANGED exit_code
           ELSE /\ Exit(ExitErr)
                /\ UNCHANGED <<stored_user, userFile, fileWrites>>
        /\ UNCHANGED <<dataDir, stdout, requests, responses>>

(* get_stored_user_data, lines 104-108: the cache file exists, read it *)
ReadCache ==
    LET user == from_str_User(TheOne(userFile))
    IN  /\ IF user.ok
           THEN /\ stored_user' = user.val
                /\ pc' = "add_todo"
                /\ UNCHANGED exit_code
           ELSE /\ Exit(ExitErr)
                /\ UNCHANGED stored_user
        /\ UNCHANGED <<dataDir, userFile, stdout, requests, responses, fileWrites>>

(* main, line 57: let stored_user = get_stored_user_data(..).await?; *)
GetStoredUserData ==
    /\ pc = "get_stored_user_data"
    /\ IF ~exists(userFile) THEN FetchAndStore ELSE ReadCache
    /\ UNCHANGED <<authFile, remoteInbox, add_todo, api_key, uuidsDrawn, issuedIds,
                   invocations, removals>>

(* main, lines 59-71: the optional add_item call and its confirmation *)
AddTodo ==
    /\ pc = "add_todo"
    /\ IF add_todo = {}
       THEN /\ pc' = "farewell"
            /\ UNCHANGED <<stdout, requests, responses, exit_code, uuidsDrawn, issuedIds>>
       ELSE \E resp \in AddItemResponses :
            LET new_todo == TheOne(add_todo)
                request_body == AddItemSyncRequest(TheOne(stored_user).inbox_project_id,
                                                   new_todo, uuidsDrawn)
                add_item_response == add_item(resp)
            IN  /\ requests' = Append(requests, Post(TheOne(api_key), request_body))
                /\ responses' = Append(responses, resp)
                /\ uuidsDrawn' = uuidsDrawn + 2
                /\ issuedIds' = Append(issuedIds, <<request_body.commands[1].temp_id,
                                                    request_body.commands[1].uuid>>)
                /\ IF add_item_response.kind = "panic"
                   THEN /\ Exit(ExitPanic)
                        /\ UNCHANGED stdout
                   ELSE /\ stdout' = IF add_item_response.kind = "ok"
                                     THEN Append(stdout, ConfirmationLine(new_todo))
                                     ELSE stdout
                        /\ pc' = "farewell"
                        /\ UNCHANGED exit_code
    /\ UNCHANGED <<fsVars, remoteInbox, add_todo, api_key, stored_user, invocations,
                   removals, fileWrites>>

(* main, lines 73-74: println!("Bye!"); Ok(()) *)
Farewell ==
    /\ pc = "farewell"
    /\ stdout' = Append(stdout, FarewellLine)
    /\ Exit(ExitOk)
    /\ UNCHANGED <<fsVars, remoteInbox, add_todo, api_key, stored_user, requests,
                   responses, uuidsDrawn, issuedIds, invocations, removals, fileWrites>>

(* Environment: the account's inbox project changes on the remote side *)
RemoteProfileChange ==
    /\ \E i \in Ids \ {remoteInbox} : remoteInbox' = i
    /\ UNCHANGED <<fsVars, pc, add_todo, api_key, stored_user, stdout, requests,
                   responses, exit_code, uuidsDrawn, issuedIds, invocations, removals,
                   fileWrites>>

(* Environment: somebody deletes the cache file between two invocations *)
RemoveCacheFile ==
    /\ pc \in {"idle", "exited"}
    /\ userFile # {}
    /\ removals < MaxRemovals
    /\ removals' = removals + 1
    /\ userFile' = {}
    /\ UNCHANGED <<authFile, dataDir, remoteInbox, pc, add_todo, api_key, stored_user,
                   stdout, requests, responses, exit_code, uuidsDrawn, issuedIds,
                   invocations, fileWrites>>

Next ==
    \/ Invoke
    \/ GetApiKey
    \/ GetStoredUserData
    \/ AddTodo
    \/ Farewell
    \/ RemoteProfileChange
    \/ RemoveCacheFile

Spec == Init /\ [][Next]_vars

----------------------------------------------------------------------------
TypeOK ==
    /\ authFile \in AuthFiles
    /\ dataDir \in BOOLEAN
    /\ Cardinality(userFile) <= 1
    /\ userFile # {} => dataDir
    /\ remoteInbox \in Ids
    /\ pc \in {"idle", "get_api_key", "get_stored_user_data", "add_todo", "farewell", "exited"}
    /\ add_todo \in {{}} \cup {{t} : t \in Texts}
    /\ api_key \in {{}} \cup {{k} : k \in Keys}
    /\ stored_user \in {{}} \cup {{User(i)} : i \in Ids}
    /\ exit_code \in {{}, {ExitOk}, {ExitErr}, {ExitPanic}}
    /\ (pc = "exited") <=> (exit_code # {})
    /\ Len(requests) = Len(responses)
    /\ Len(requests) <= 2
    /\ uuidsDrawn = 2 * Len(issuedIds)
    /\ invocations \in 0..MaxInvocations
    /\ removals \in 0..MaxRemovals

----------------------------------------------------------------------------
(* Vocabulary of the properties *)

IsGetUser(req) == req.body.resource_types = <<"user">> /\ req.body.commands = <<>>
IsAddItem(req) == req.body.commands # <<>>

Printed(out, line) == \E i \in DOMAIN out : out[i] = line
ConfirmationPrinted(out) == \E t \in Texts : Printed(out, ConfirmationLine(t))

(* The step of the running invocation that executes get_stored_user_data *)
CacheStep == pc = "get_stored_user_data" /\ pc' # pc

(* The file parses as a User: complete JSON holding an inbox_project_id *)
ParsesAsUser(doc) == doc.complete /\ \E f \in doc.fields : f[1] = "inbox_project_id"
UserIn(doc) == User((CHOOSE f \in doc.fields : f[1] = "inbox_project_id")[2])

(* The get-user call fails: no response, a body that is no Sync Response,  *)
(* or a Sync Response without user.                                        *)
GetUserFails(resp) ==
    \/ ~resp.transport
    \/ ~resp.json
    \/ resp.user = {}
    \/ \E d \in resp.user : ~ParsesAsUser(d)

Last(seq) == seq[Len(seq)]

----------------------------------------------------------------------------
(* C1: when user.json exists and parses as a User at the time               *)
(* get_stored_user_data checks it, that call sends no request, leaves the   *)
(* data directory and the cache file as they are, and returns exactly the   *)
(* User stored in the file.                                                 *)
C1_CacheHit ==
    [][ (CacheStep /\ userFile # {} /\ ParsesAsUser(TheOne(userFile)))
        => /\ requests' = requests
           /\ requests' = <<>>
           /\ userFile' = userFile
           /\ dataDir' = dataDir
           /\ fileWrites' = fileWrites
           /\ stored_user' = {UserIn(TheOne(userFile))}
           /\ pc' = "add_todo" ]_vars

(* A cache hit happened: the User was obtained without any request, from a  *)
(* file that holds more than the field read from it.                        *)
C1_Witness ==
    /\ pc = "add_todo"
    /\ requests = <<>>
    /\ userFile = {JsonDoc({<<"inbox_project_id", "456">>, <<"full_name", "Ann">>})}
    /\ stored_user = {User("456")}
    /\ remoteInbox = "123"

----------------------------------------------------------------------------
(* C2 as stated: when user.json is absent and the get-user call succeeds,   *)
(* exactly one get-user request is sent, the file is written, and the User  *)
(* parsed back from it equals the fetched User, which is returned.          *)
C2_AsStated ==
    [][ (CacheStep /\ userFile = {} /\ ~GetUserFails(Last(responses')))
        => /\ Len(requests') = Len(requests) + 1
           /\ IsGetUser(Last(requests'))
           /\ fileWrites' = fileWrites + 1
           /\ userFile' # {}
           /\ ParsesAsUser(TheOne(userFile'))
           /\ stored_user' = {UserIn(TheOne(userFile'))}
           /\ stored_user' = {UserIn(TheOne(Last(responses').user))} ]_vars

(* C2 amended: when user.json is absent and the get-user call succeeds,     *)
(* exactly one get-user request is sent and no file other than user.json is *)
(* touched; if creating the directory, creating the file and writing it all *)
(* succeed (get_stored_user_data returns Ok), user.json is written once and *)
(* the User parsed back from it equals the fetched User returned to main;   *)
(* otherwise no User is returned and the file is absent or incomplete.      *)
C2_FetchStoresUser ==
    [][ (CacheStep /\ userFile = {} /\ ~GetUserFails(Last(responses')))
        => /\ Len(requests') = Len(requests) + 1
           /\ Len(requests') = 1
           /\ IsGetUser(Last(requests'))
           /\ authFile' = authFile
           /\ fileWrites' <= fileWrites + 1
           /\ IF pc' = "add_todo"
              THEN /\ fileWrites' = fileWrites + 1
                   /\ userFile' # {}
                   /\ ParsesAsUser(TheOne(userFile'))
                   /\ stored_user' = {UserIn(TheOne(userFile'))}
                   /\ stored_user' = {UserIn(TheOne(Last(responses').user))}
              ELSE /\ stored_user' = {}
                   /\ exit_code' = {ExitErr}
                   /\ \A d \in userFile' : ~ParsesAsUser(d) ]_vars

(* A fetch stored the remote profile: one get-user request, the file holds  *)
(* the fetched inbox id and main holds the same User.                       *)
C2_Witness ==
    /\ pc = "add_todo"
    /\ Len(requests) = 1
    /\ IsGetUser(requests[1])
    /\ responses[1] = Response(200, TRUE, {RemoteUserDoc("456")}, FALSE)
    /\ userFile = {JsonDoc({<<"inbox_project_id", "456">>})}
    /\ stored_user = {User("456")}
    /\ fileWrites = 1

----------------------------------------------------------------------------
(* C3: when user.json exists but does not parse as a User (an empty or      *)
(* partially written file included), get_stored_user_data returns an error: *)
(* the invocation has sent and sends no request, the file is unchanged, and *)
(* main ends with a failure status without the farewell line.  As the file  *)
(* is unchanged the same holds for every later invocation.                  *)
C3_CorruptCacheFails ==
    [][ (CacheStep /\ userFile # {} /\ ~ParsesAsUser(TheOne(userFile)))
        => /\ requests' = <<>>
           /\ userFile' = userFile
           /\ dataDir' = dataDir
           /\ fileWrites' = fileWrites
           /\ stored_user' = {}
           /\ pc' = "exited"
           /\ exit_code' = {ExitErr}
           /\ ~Printed(stdout', FarewellLine)
           /\ ~ConfirmationPrinted(stdout') ]_vars

(* A write failed in one invocation and left a partial file; two later      *)
(* invocations with --add both failed on it without sending anything.       *)
C3_Witness ==
    /\ invocations = 3
    /\ fileWrites = 1
    /\ removals = 0
    /\ userFile = {PartialDoc({<<"inbox_project_id", "123">>})}
    /\ pc = "exited"
    /\ exit_code = {ExitErr}
    /\ api_key # {}
    /\ add_todo # {}
    /\ stored_user = {}
    /\ requests = <<>>
    /\ stdout = <<>>

----------------------------------------------------------------------------
(* C4: when client_auth.toml is missing, unreadable, or lacks a string      *)
(* api_key, get_api_key fails and the invocation does nothing else: no      *)
(* request, no change to the directory or the files, nothing printed, and   *)
(* the process ends with a failure status.                                  *)
C4_NoCredentialNoEffect ==
    [][ ( /\ pc = "get_api_key"
          /\ pc' # pc
          /\ \/ ~authFile.exists
             \/ ~authFile.readable
             \/ ~authFile.toml
             \/ ~\E e \in authFile.table : e[1] = "api_key" /\ e[2] = "string" )
        => /\ pc' = "exited"
           /\ exit_code' = {ExitErr}
           /\ api_key' = {}
           /\ requests' = <<>>
           /\ stdout' = <<>>
           /\ authFile' = authFile
           /\ dataDir' = dataDir
           /\ userFile' = userFile
           /\ fileWrites' = fileWrites ]_vars

(* An invocation with --add stopped at a credentials file whose api_key is  *)
(* no string, with a fresh data directory left untouched.                   *)
C4_Witness ==
    /\ pc = "exited"
    /\ authFile = AuthIntKey
    /\ add_todo # {}
    /\ api_key = {}
    /\ exit_code = {ExitErr}
    /\ ~dataDir
    /\ userFile = {}
    /\ requests = <<>>
    /\ stdout = <<>>

----------------------------------------------------------------------------
(* C5 as stated: every invocation that obtained the credential and the User *)
(* ends with the farewell line printed and exit status 0, whatever the      *)
(* outcome of add_item.                                                     *)
C5_AsStated ==
    (pc = "exited" /\ api_key # {} /\ stored_user # {})
        => /\ exit_code = {ExitOk}
           /\ stdout # <<>>
           /\ Last(stdout) = FarewellLine

----------------------------------------------------------------------------
(* C6 as stated: the confirmation line is printed only if --add was given   *)
(* and the remote accepted the item with a success status.                  *)
C6_AsStated ==
    \A t \in Texts :
        Printed(stdout, ConfirmationLine(t))
            => /\ add_todo = {t}
               /\ \E i \in DOMAIN requests :
                     /\ IsAddItem(requests[i])
                     /\ responses[i].transport
                     /\ responses[i].status = 200
                     /\ responses[i].accepted

----------------------------------------------------------------------------
(* C7: every add-item request carries sync_token "*", no resource types and *)
(* exactly one command, of type item_add, whose temp_id and uuid differ     *)
(* from each other and from the identifiers of every other add_item call    *)
(* (of this and of earlier invocations).                                    *)
C7_EnvelopeAndFreshIds ==
    /\ \A i \in DOMAIN requests :
          IsAddItem(requests[i])
              => /\ requests[i].body.sync_token = "*"
                 /\ requests[i].body.resource_types = <<>>
                 /\ Len(requests[i].body.commands) = 1
                 /\ requests[i].body.commands[1].type = "item_add"
                 /\ requests[i].body.commands[1].temp_id # requests[i].body.commands[1].uuid
                 /\ issuedIds # <<>>
                 /\ Last(issuedIds) = <<requests[i].body.commands[1].temp_id,
                                        requests[i].body.commands[1].uuid>>
    /\ \A i \in DOMAIN issuedIds :
          /\ issuedIds[i][1] # issuedIds[i][2]
          /\ \A j \in DOMAIN issuedIds :
                i # j => {issuedIds[i][1], issuedIds[i][2]}
                             \cap {issuedIds[j][1], issuedIds[j][2]} = {}

(* Three invocations each sent an add-item request *)
C7_Witness ==
    /\ Len(issuedIds) = 3
    /\ Len(requests) = 1
    /\ IsAddItem(requests[1])

----------------------------------------------------------------------------
(* C8: every add-item request carries project_id = inbox_project_id of the  *)
(* User get_stored_user_data returned in this invocation and content = the  *)
(* --add text; with an existing cache file that id is the cached one,       *)
(* whatever the remote profile says; and no add-item request exists in an   *)
(* invocation without --add or without a User.                              *)
C8_AddItemArgs ==
    \A i \in DOMAIN requests :
        IsAddItem(requests[i])
            => /\ add_todo # {}
               /\ stored_user # {}
               /\ requests[i].body.commands[1].args
                     = [project_id |-> TheOne(stored_user).inbox_project_id,
                        content |-> TheOne(add_todo)]
               /\ (i = 1 /\ userFile # {} /\ ParsesAsUser(TheOne(userFile)))
                     => requests[i].body.commands[1].args.project_id
                            = UserIn(TheOne(userFile)).inbox_project_id

(* An item went to the cached inbox "123" although the remote inbox is      *)
(* "456" by now and no get-user request was made.                           *)
C8_Witness ==
    /\ Len(requests) = 1
    /\ IsAddItem(requests[1])
    /\ requests[1].body.commands[1].args = [project_id |-> "123", content |-> "Buy milk"]
    /\ userFile = {JsonDoc({<<"inbox_project_id", "123">>})}
    /\ remoteInbox = "456"
    /\ fileWrites = 1
    /\ invocations = 2

----------------------------------------------------------------------------
----------------------------------------------------------------------------
(* C10: when user.json is absent and the get-user call fails (transport     *)
(* failure, a body that is no Sync Response, a Sync Response without user), *)
(* the invocation ends with a failure status and no User: the directory and *)
(* the file are not created, nothing but the one get-user request is sent,  *)
(* neither confirmation nor farewell is printed; and every invocation that  *)
(* finds the file absent fetches.                                           *)
C10_FetchFailureIsFatal ==
    /\ [][ (CacheStep /\ userFile = {} /\ GetUserFails(Last(responses')))
           => /\ pc' = "exited"
              /\ exit_code' \in {{ExitErr}, {ExitPanic}}
              /\ stored_user' = {}
              /\ dataDir' = dataDir
              /\ userFile' = {}
              /\ fileWrites' = fileWrites
              /\ Len(requests') = 1
              /\ IsGetUser(requests'[1])
              /\ ~Printed(stdout', FarewellLine)
              /\ ~ConfirmationPrinted(stdout') ]_vars
    /\ [][ (CacheStep /\ userFile = {})
           => /\ Len(requests') = Len(requests) + 1
              /\ IsGetUser(Last(requests')) ]_vars

(* The second invocation in a row fetched and got a Sync Response without   *)
(* user: it panicked, and there is still no data directory.                 *)
C10_Witness ==
    /\ invocations = 2
    /\ removals = 0
    /\ pc = "exited"
    /\ exit_code = {ExitPanic}
    /\ add_todo # {}
    /\ ~dataDir
    /\ userFile = {}
    /\ stored_user = {}
    /\ Len(requests) = 1
    /\ IsGetUser(requests[1])
    /\ responses[1] = Response(200, TRUE, {}, FALSE)

============================================================================
